---- MODULE Spec2Model ----
(***************************************************************************)
(* Disaster Relief Distribution Tracker: the SQLite store of people, aid   *)
(* requests and deliveries ("project submission/final code.py"), its three *)
(* mutation functions, its derived queries, and the People form handler    *)
(* that validates what it passes to add_person.                            *)
(*                                                                         *)
(* Text that the code inspects character by character (a person's area,    *)
(* the search filter, the age typed in the form) is a sequence of          *)
(* one-character strings; text that is only stored and shown is a string.  *)
(* An SQL or Python scalar is <<"null">>, <<"int", n>> or <<"text", s>>.   *)
(***************************************************************************)
EXTENDS Integers, Sequences, FiniteSets

VARIABLES people, aid_requests, aid_delivered, last

vars == <<people, aid_requests, aid_delivered, last>>

tables == <<people, aid_requests, aid_delivered>>

(* ------------------------------ bounds -------------------------------- *)
\* The rows the three tables may hold together.
MaxRows == 4

(* ------------------------------ inputs -------------------------------- *)
None == <<"null">>
IntVal(n) == <<"int", n>>
TextVal(s) == <<"text", s>>

\* Arguments of direct add_person calls: with an age, without one, with
\* age 0, and with nothing valid at all.
PersonArgs == { <<"Asha", <<"N", "o">>, IntVal(34)>>,
                <<"Ravi", <<"n", "o">>, None>>,
                <<"Asha", <<"N", "o">>, IntVal(0)>>,
                <<"", <<>>, IntVal(-5)>> }
\* What can stand in the Name, Area and Age entries of the People form.
\* "sup2" is the one character U+00B2, a digit to str.isdigit but not to int.
FormArgs == { <<"Asha", <<"N", "o">>, <<>>>>,
              <<"Asha", <<"N", "o">>, <<"0">>>>,
              <<"Asha", <<"N", "o">>, <<"3", "4">>>>,
              <<"", <<"N", "o">>, <<>>>>,
              <<"Asha", <<>>, <<"3", "4">>>>,
              <<"Asha", <<"N", "o">>, <<"-", "5">>>>,
              <<"Asha", <<"N", "o">>, <<"x">>>>,
              <<"Asha", <<"N", "o">>, <<"sup2">>>> }
AidNames == {"Food"}
RequestDates == {"2024-01-10"}
DeliveryDates == {"2024-01-12", "2024-01-13"}
Items == {"Rice"}
\* Ids passed to add_request and mark_delivered: every id assigned so far
\* and the next one, which no row has yet.
IdArgs(table) == 1..(Len(table) + 1)
AreaFilters == { <<>>, <<"o">>, <<"N">>, <<"n", "O">>, <<"o", "N">>,
                 <<"_", "o">>, <<"%">>, <<"N", "%">>, <<"N", "_", "o">> }
Statuses == {"All", "Pending", "Delivered"}

(* ------------------------------ helpers ------------------------------- *)
RECURSIVE SetMax(_)
SetMax(S) == IF S = {} THEN 0
             ELSE LET x == CHOOSE y \in S : TRUE
                      m == SetMax(S \ {x})
                  IN IF x > m THEN x ELSE m

Ids(table) == {table[i].id : i \in DOMAIN table}

\* INTEGER PRIMARY KEY AUTOINCREMENT: one more than the largest id ever
\* assigned; no row is ever deleted, so that is the largest id in the table.
AutoIncrement(table) == SetMax(Ids(table)) + 1

\* The truth value Python gives an age argument: None and 0 are false.
TruthyUnlessNone(age) == age # None

Truthy(age) == age # None /\ age # IntVal(0)

RECURSIVE DescSeq(_)
\* ORDER BY id DESC over a set of ids.
DescSeq(S) == IF S = {} THEN <<>>
              ELSE LET m == SetMax(S) IN <<m>> \o DescSeq(S \ {m})

RECURSIVE AscSeq(_)
AscSeq(S) == IF S = {} THEN <<>>
             ELSE LET m == SetMax(S) IN AscSeq(S \ {m}) \o <<m>>

RowById(table, id) == table[CHOOSE i \in DOMAIN table : table[i].id = id]

RECURSIVE Concat(_)
Concat(ss) == IF ss = <<>> THEN <<>> ELSE Head(ss) \o Concat(Tail(ss))

\* Room for one more row within the bound.
Room == Len(people) + Len(aid_requests) + Len(aid_delivered) < MaxRows

Init ==
    /\ people = <<>>
    /\ aid_requests = <<>>
    /\ aid_delivered = <<>>
    /\ last = [op |-> "init_db", result |-> "ok", args |-> <<>>]

(* ----------------------------- mutations ------------------------------ *)
\* The row add_person inserts.
PersonRow(name, area, age) ==
    [id |-> AutoIncrement(people), name |-> name, area |-> area,
     age |-> IF Truthy(age) THEN age ELSE None]

InsertPerson(name, area, age) ==
    people' = Append(people, PersonRow(name, area, age))

add_person(name, area, age) ==
    /\ Room
    /\ InsertPerson(name, area, age)
    /\ last' = [op |-> "add_person", result |-> "ok", args |-> <<name, area, age>>]
    /\ UNCHANGED <<aid_requests, aid_delivered>>

RequestRow(pid, aid_type, req_date) ==
    [id |-> AutoIncrement(aid_requests), person_id |-> pid,
     aid_type |-> aid_type, request_date |-> req_date]

\* get_conn() issues no PRAGMA foreign_keys=ON, so SQLite does not enforce
\* the FOREIGN KEY clause of aid_requests: the INSERT succeeds for any pid.
add_request(pid, aid_type, req_date) ==
    /\ Room
    /\ aid_requests' = Append(aid_requests, RequestRow(pid, aid_type, req_date))
    /\ last' = [op |-> "add_request", result |-> "ok", args |-> <<pid, aid_type, req_date>>]
    /\ UNCHANGED <<people, aid_delivered>>

DeliveryRow(rid, item, d_date) ==
    [id |-> AutoIncrement(aid_delivered), request_id |-> rid,
     item_given |-> item, delivery_date |-> d_date]

\* As for add_request: the FOREIGN KEY clause of aid_delivered is not
\* enforced, and nothing looks for an earlier delivery of the request.
mark_delivered(rid, item, d_date) ==
    /\ Room
    /\ aid_delivered' = Append(aid_delivered, DeliveryRow(rid, item, d_date))
    /\ last' = [op |-> "mark_delivered", result |-> "ok", args |-> <<rid, item, d_date>>]
    /\ UNCHANGED <<people, aid_requests>>

(* ------------------------- the People form ---------------------------- *)
DecimalDigits == <<"0", "1", "2", "3", "4", "5", "6", "7", "8", "9">>

IsDecimalDigit(c) == \E k \in DOMAIN DecimalDigits : DecimalDigits[k] = c

\* str.isdigit: non-empty and every character a digit, superscripts included.
isdigit(t) == t # <<>> /\ \A k \in DOMAIN t : IsDecimalDigit(t[k]) \/ t[k] = "sup2"

\* int(t) raises ValueError unless every character is a decimal digit.
IntParses(t) == t # <<>> /\ \A k \in DOMAIN t : IsDecimalDigit(t[k])

DigitValue(c) == (CHOOSE k \in DOMAIN DecimalDigits : DecimalDigits[k] = c) - 1

RECURSIVE int(_)
int(t) == IF t = <<>> THEN 0
          ELSE int(SubSeq(t, 1, Len(t) - 1)) * 10 + DigitValue(t[Len(t)])

RequiredNameOnly(name, area) == name # ""

\* on_add, first test: "Name & Area required".
Required(name, area) == name # "" /\ area # <<>>

\* on_add, second test: "Age must be number".
AgeLooksNumeric(age) == age = <<>> \/ isdigit(age)

OnAddError(result) ==
    /\ last' = [op |-> "PeopleTab.on_add", result |-> result, args |-> <<>>]
    /\ UNCHANGED tables

PeopleTab_on_add(name, area, age) ==
    IF ~Required(name, area) THEN OnAddError("Name & Area required")
    ELSE IF ~AgeLooksNumeric(age) THEN OnAddError("Age must be number")
    ELSE IF age # <<>> /\ ~IntParses(age) THEN OnAddError("ValueError")
    ELSE /\ Room
         /\ InsertPerson(name, area, IF age # <<>> THEN IntVal(int(age)) ELSE None)
         /\ last' = [op |-> "PeopleTab.on_add", result |-> "ok",
                     args |-> <<name, area, age>>]
         /\ UNCHANGED <<aid_requests, aid_delivered>>

(* ------------------------------ queries ------------------------------- *)
\* COALESCE(age,'')
CoalesceAge(age) == IF age = None THEN TextVal("") ELSE age

PeopleListRow(p) == <<p.id, p.name, p.area, CoalesceAge(p.age)>>

ListPeopleAscending(ppl) ==
    LET ids == AscSeq(Ids(ppl))
    IN [k \in 1..Len(ids) |-> PeopleListRow(RowById(ppl, ids[k]))]

\* SELECT id,name,area,COALESCE(age,'') FROM people ORDER BY id DESC, over
\* the people table ppl.
ListPeople(ppl) ==
    LET ids == DescSeq(Ids(ppl))
    IN [k \in 1..Len(ids) |-> PeopleListRow(RowById(ppl, ids[k]))]

list_people == ListPeople(people)

\* The delivery columns of a LEFT JOIN row that matched no delivery: all NULL.
\* Ids start at 1, so id 0 stands for NULL.
NullDelivery == [id |-> 0, request_id |-> 0, item_given |-> "", delivery_date |-> ""]

DeliveryIdsOf(rid) ==
    {aid_delivered[i].id : i \in {j \in DOMAIN aid_delivered :
                                     aid_delivered[j].request_id = rid}}

\* aid_requests r JOIN people p ON p.id=r.person_id
\*                LEFT JOIN aid_delivered d ON d.request_id=r.id, for one r.
\* SQL leaves the order of one request's delivery rows open; SQLite yields
\* them in delivery id order.
JoinRequest(r) ==
    IF r.person_id \notin Ids(people) THEN <<>>
    ELSE LET p == RowById(people, r.person_id)
             ds == AscSeq(DeliveryIdsOf(r.id))
         IN IF ds = <<>> THEN << [r |-> r, p |-> p, d |-> NullDelivery] >>
            ELSE [k \in 1..Len(ds) |->
                     [r |-> r, p |-> p, d |-> RowById(aid_delivered, ds[k])]]

\* The whole join, ORDER BY r.id DESC.
Joined ==
    LET ids == DescSeq(Ids(aid_requests))
    IN Concat([k \in 1..Len(ids) |-> JoinRequest(RowById(aid_requests, ids[k]))])

PendingRow(j) == <<j.r.id, j.p.name, j.p.area, j.r.aid_type, j.r.request_date>>

\* ... WHERE d.id IS NULL
pending_join == SelectSeq(Joined, LAMBDA j : j.d.id = 0)

list_pending_requests ==
    [k \in 1..Len(pending_join) |-> PendingRow(pending_join[k])]

\* The letters A-Z and a-z among the characters of the model.
AsciiUpper == <<"N", "O">>
AsciiLower == <<"n", "o">>

FoldNothing(c) == c

\* SQLite's LIKE compares ASCII letters without regard to case.
Fold(c) == IF \E k \in DOMAIN AsciiUpper : AsciiUpper[k] = c
           THEN AsciiLower[CHOOSE k \in DOMAIN AsciiUpper : AsciiUpper[k] = c]
           ELSE c

RECURSIVE Like(_, _)
\* text LIKE pat, no ESCAPE: % matches any run of characters, _ any one.
Like(text, pat) ==
    IF pat = <<>> THEN text = <<>>
    ELSE IF Head(pat) = "%"
         THEN \E k \in 0..Len(text) : Like(SubSeq(text, k + 1, Len(text)), Tail(pat))
         ELSE /\ text # <<>>
              /\ Head(pat) = "_" \/ Fold(Head(pat)) = Fold(Head(text))
              /\ Like(Tail(text), Tail(pat))

\* if area: "p.area LIKE ?" with f"%{area}%"
AreaOk(area, j) == area # <<>> => Like(j.p.area, <<"%">> \o area \o <<"%">>)

StatusOkNoDeliveredTest(status, j) ==
    status = "Pending" => j.d.id = 0

StatusOk(status, j) ==
    /\ status = "Pending" => j.d.id = 0
    /\ status = "Delivered" => j.d.id # 0

search_join(area, status) ==
    SelectSeq(Joined, LAMBDA j : AreaOk(area, j) /\ StatusOk(status, j))

\* CASE WHEN d.id IS NULL THEN 'PENDING' ELSE d.delivery_date END
StatusColumn(j) == IF j.d.id = 0 THEN "PENDING" ELSE j.d.delivery_date

SearchRow(j) == <<j.p.name, j.p.area, j.r.aid_type, j.r.request_date, StatusColumn(j)>>

search(area, status) ==
    LET js == search_join(area, status)
    IN [k \in 1..Len(js) |-> SearchRow(js[k])]

\* aid_delivered d JOIN aid_requests r ON r.id=d.request_id
\*                 JOIN people p ON p.id=r.person_id: the delivery ids kept.
SummaryJoin ==
    {d \in DOMAIN aid_delivered :
        /\ aid_delivered[d].request_id \in Ids(aid_requests)
        /\ RowById(aid_requests, aid_delivered[d].request_id).person_id \in Ids(people)}

SummaryArea(d) ==
    RowById(people, RowById(aid_requests, aid_delivered[d].request_id).person_id).area

SummaryGroups == {SummaryArea(d) : d \in SummaryJoin}

SummaryCount(area) == Cardinality({d \in SummaryJoin : SummaryArea(d) = area})

\* GROUP BY p.area ORDER BY COUNT(*) DESC. SQL leaves the order of equal
\* counts open, so the query has a set of possible results.
delivered_summary_by_area ==
    {s \in [1..Cardinality(SummaryGroups) -> {<<a, SummaryCount(a)>> : a \in SummaryGroups}] :
        /\ \A i, k \in DOMAIN s : i # k => s[i] # s[k]
        /\ \A i, k \in DOMAIN s : i < k => s[i][2] >= s[k][2]}

\* ReportsTab.refresh: SELECT COUNT(*) FROM aid_delivered
CountDeliveries == Len(aid_delivered)

(* ------------------------------- system ------------------------------- *)
Next ==
    \/ \E a \in PersonArgs : add_person(a[1], a[2], a[3])
    \/ \E pid \in IdArgs(people), t \in AidNames, d \in RequestDates :
            add_request(pid, t, d)
    \/ \E rid \in IdArgs(aid_requests), i \in Items, d \in DeliveryDates :
            mark_delivered(rid, i, d)
    \/ \E a \in FormArgs : PeopleTab_on_add(a[1], a[2], a[3])

Spec == Init /\ [][Next]_vars

(* ------------------------- claim vocabulary --------------------------- *)
RequestIds == Ids(aid_requests)

\* Spec section 3: a request is pending iff no delivery references it.
IsPending(rid) == DeliveryIdsOf(rid) = {}

PendingListIds == [k \in DOMAIN list_pending_requests |-> list_pending_requests[k][1]]

\* How many rows of a join belong to request rid.
RowsFor(rid, js) == Cardinality({k \in DOMAIN js : js[k].r.id = rid})

PersonKnown(rid) == RowById(aid_requests, rid).person_id \in Ids(people)

(* C1: after any sequence of add_person, add_request and mark_delivered    *)
(* calls, list_pending_requests has exactly one row for every stored       *)
(* request that no delivery references, none for a delivered request, and  *)
(* the rows are in descending request id order.                            *)
C1_PendingListExact ==
    PendingListIds = DescSeq({rid \in RequestIds : IsPending(rid)})

RangeOf(q) == {q[k] : k \in DOMAIN q}

CountIn(x, q) == Cardinality({k \in DOMAIN q : q[k] = x})

(* C2: search(area="", status="All") is the union of search(status=        *)
(* "Pending") and search(status="Delivered"): as bags of rows All is the   *)
(* sum of the two, every joined row behind All is behind exactly one of    *)
(* them, none of theirs is missing from All, and no request is behind both.*)
C2_AllIsUnionOfPendingAndDelivered ==
    LET all == search_join(<<>>, "All")
        pen == search_join(<<>>, "Pending")
        del == search_join(<<>>, "Delivered")
        rows == RangeOf(search(<<>>, "All")) \cup RangeOf(search(<<>>, "Pending"))
                    \cup RangeOf(search(<<>>, "Delivered"))
    IN /\ \A x \in rows :
             CountIn(x, search(<<>>, "All")) =
                 CountIn(x, search(<<>>, "Pending")) + CountIn(x, search(<<>>, "Delivered"))
       /\ \A j \in RangeOf(all) : (j \in RangeOf(pen)) # (j \in RangeOf(del))
       /\ RangeOf(pen) \cup RangeOf(del) \subseteq RangeOf(all)
       /\ {j.r.id : j \in RangeOf(pen)} \cap {j.r.id : j \in RangeOf(del)} = {}

\* One request is pending, another delivered, and All shows both.
C2_Witness ==
    /\ Len(search(<<>>, "Pending")) = 1
    /\ Len(search(<<>>, "Delivered")) = 1
    /\ search(<<>>, "All") = search(<<>>, "Pending") \o search(<<>>, "Delivered")

(* C3: a request of a registered person that mark_delivered was called for *)
(* twice has two delivery rows, is absent from list_pending_requests, and  *)
(* contributes exactly one row to search(status="Delivered") and to        *)
(* search(status="All").                                                   *)
C3_DoubleDeliveryReportedOnce ==
    \A rid \in RequestIds :
        (PersonKnown(rid) /\ Cardinality(DeliveryIdsOf(rid)) = 2) =>
            /\ \A k \in DOMAIN PendingListIds : PendingListIds[k] # rid
            /\ RowsFor(rid, search_join(<<>>, "Delivered")) = 1
            /\ RowsFor(rid, search_join(<<>>, "All")) = 1

(* C4: add_request with a person_id that matches no stored person fails    *)
(* with NotFoundError and leaves every table unchanged, so that every      *)
(* stored request's person_id resolves to a stored person.                 *)
C4_UnknownPersonRejected ==
    /\ [](\A k \in DOMAIN aid_requests : aid_requests[k].person_id \in Ids(people))
    /\ [][(last'.op = "add_request" /\ last'.args[1] \notin Ids(people))
            => (last'.result = "NotFoundError" /\ UNCHANGED tables)]_vars

(* C5: mark_delivered with a request_id that matches no stored request     *)
(* fails with NotFoundError and leaves every table unchanged, so that      *)
(* every delivery's request_id resolves to a stored request.               *)
C5_UnknownRequestRejected ==
    /\ [](\A k \in DOMAIN aid_delivered : aid_delivered[k].request_id \in RequestIds)
    /\ [][(last'.op = "mark_delivered" /\ last'.args[1] \notin RequestIds)
            => (last'.result = "NotFoundError" /\ UNCHANGED tables)]_vars

NewPerson == people'[Len(people')]

ShowsStatus(rid, status, x) ==
    \E k \in DOMAIN search_join(<<>>, status) :
        /\ search_join(<<>>, status)[k].r.id = rid
        /\ search(<<>>, status)[k][5] = x

(* C7: a pending request has a row in search that shows 'PENDING'; once    *)
(* exactly one mark_delivered(request, item, d_date) is recorded for it,   *)
(* search(status="Delivered") has a row for it whose status column is      *)
(* d_date and not 'PENDING'; and a request with a delivery never appears   *)
(* in list_pending_requests.                                               *)
C7_PendingThenDelivered ==
    \A rid \in RequestIds :
        /\ IsPending(rid) => ShowsStatus(rid, "All", "PENDING")
        /\ ~IsPending(rid) => \A k \in DOMAIN PendingListIds : PendingListIds[k] # rid
        /\ Cardinality(DeliveryIdsOf(rid)) = 1 =>
              LET d == RowById(aid_delivered, CHOOSE x \in DeliveryIdsOf(rid) : TRUE)
              IN /\ d.delivery_date # "PENDING"
                 /\ ShowsStatus(rid, "Delivered", d.delivery_date)

DeliveredKnown == {rid \in RequestIds : ~IsPending(rid) /\ PersonKnown(rid)}

AreaOfRequest(rid) == RowById(people, RowById(aid_requests, rid).person_id).area

RECURSIVE SumCounts(_)
SumCounts(q) == IF q = <<>> THEN 0 ELSE Head(q)[2] + SumCounts(Tail(q))

\* No request names a missing person and no delivery a missing request.
AllResolve ==
    /\ \A k \in DOMAIN aid_requests : aid_requests[k].person_id \in Ids(people)
    /\ \A k \in DOMAIN aid_delivered : aid_delivered[k].request_id \in RequestIds

(* C8, for a database whose references all resolve:                        *)
(* delivered_summary_by_area has one row per distinct area with at         *)
(* least one delivered request, each count is the number of delivered      *)
(* requests whose person's area it is, the rows are in descending count    *)
(* order, and when no request has more than one delivery the counts add up *)
(* to CountDeliveries.                                                     *)
C8_SummaryCountsDeliveredRequests ==
    AllResolve => \A q \in delivered_summary_by_area :
        /\ {q[k][1] : k \in DOMAIN q} = {AreaOfRequest(rid) : rid \in DeliveredKnown}
        /\ \A i, k \in DOMAIN q : q[i][1] = q[k][1] => i = k
        /\ \A k \in DOMAIN q :
              q[k][2] = Cardinality({rid \in DeliveredKnown : AreaOfRequest(rid) = q[k][1]})
        /\ \A i, k \in DOMAIN q : i < k => q[i][2] >= q[k][2]
        /\ (\A rid \in RequestIds : Cardinality(DeliveryIdsOf(rid)) <= 1)
              => SumCounts(q) = CountDeliveries

\* f occurs in area as a run of equal characters.
ContainsExactly(area, f) ==
    \E k \in 0..(Len(area) - Len(f)) : SubSeq(area, k + 1, k + Len(f)) = f

(* C9 as claimed: with a non-empty area filter, search returns the rows of *)
(* exactly those requests (of the status asked for) whose person's area    *)
(* contains the filter as a case-sensitive substring.                      *)
C9_CaseSensitiveSubstring ==
    \A st \in Statuses :
        LET unfiltered == search_join(<<>>, st)
        IN \A f \in AreaFilters \ {<<>>} :
              search_join(f, st) =
                  SelectSeq(unfiltered, LAMBDA j : ContainsExactly(j.p.area, f))

\* Two characters are the same ASCII letter in either case, or equal.
SameLetter(a, b) ==
    a = b \/ \E k \in DOMAIN AsciiUpper : {a, b} = {AsciiUpper[k], AsciiLower[k]}

HasPercent(f) == \E i \in DOMAIN f : f[i] = "%"

\* The filter read as SQL LIKE reads it, laid over a stretch of the area.
\* A '_' takes any one character, any other character one character that
\* is the same letter; without '%' the filter so fills a run of the area
\* as long as itself. With '%', which takes any run of characters, cut[i]
\* is where the i-th filter character's share of the area ends.
MatchesSomewhere(area, f) ==
    IF ~HasPercent(f)
    THEN \E k \in 0..(Len(area) - Len(f)) :
            \A i \in 1..Len(f) : f[i] = "_" \/ SameLetter(f[i], area[k + i])
    ELSE \E cut \in [0..Len(f) -> 0..Len(area)] :
            \A i \in 1..Len(f) :
                IF f[i] = "%" THEN cut[i] >= cut[i - 1]
                ELSE /\ cut[i] = cut[i - 1] + 1
                     /\ f[i] = "_" \/ SameLetter(f[i], area[cut[i]])

(* C9 as amended: with a non-empty area filter, search returns the rows of *)
(* exactly those requests (of the status asked for) whose person's area    *)
(* contains the filter as SQL LIKE reads it: ASCII letters match in either *)
(* case, '_' in the filter matches any one character and '%' any run.      *)
C9_LikeSubstring ==
    \A st \in Statuses :
        LET unfiltered == search_join(<<>>, st)
        IN \A f \in AreaFilters \ {<<>>} :
              search_join(f, st) =
                  SelectSeq(unfiltered, LAMBDA j : MatchesSomewhere(j.p.area, f))

\* A filter keeps one request for an area that differs from it in case and
\* drops another request.
C9_Witness ==
    /\ Len(search(<<"N">>, "All")) = 1
    /\ search(<<"N">>, "All")[1][2] = <<"n", "o">>
    /\ Len(search(<<>>, "All")) = 2

(* C10: every add_person with a valid name and area adds exactly one       *)
(* person, whose id is greater than every id assigned before; list_people  *)
(* then has that person, with the given name and area, as its first row,   *)
(* and is in strictly descending id order.                                 *)
C10_FreshIdListedFirst ==
    [][(last'.op \in {"add_person", "PeopleTab.on_add"} /\ last'.result = "ok"
          /\ last'.args[1] # "" /\ last'.args[2] # <<>>) =>
        LET before == ListPeople(people)
            after == ListPeople(people')
        IN /\ people' = Append(people, NewPerson)
           /\ \A id \in Ids(people) : NewPerson.id > id
           /\ Len(after) = Len(before) + 1
           /\ after[1][1] = NewPerson.id
           /\ after[1][2] = last'.args[1]
           /\ after[1][3] = last'.args[2]
           /\ \A i, k \in DOMAIN after : i < k => after[i][1] > after[k][1]
           /\ \A k \in DOMAIN before : after[k + 1] = before[k]]_vars

\* A valid add_person has just added a second person.
C10_Witness ==
    /\ last.op = "add_person"
    /\ last.args[1] # "" /\ last.args[2] # <<>>
    /\ Len(people) = 2
    /\ list_people[1][1] = 2

C11_GivenZeroOrNothing ==
    \/ last'.op = "add_person" /\ last'.args[3] \in {None, IntVal(0)}
    \/ last'.op = "PeopleTab.on_add" /\ last'.result = "ok"
         /\ last'.args[3] \in {<<>>, <<"0">>}

====
